---------------------------- MODULE Spec2Model ----------------------------
(***************************************************************************)
(* our-chat-stats: Instagram chat export parser and statistics.            *)
(*                                                                         *)
(* Eight specifications share this module:                                 *)
(*   SpecEmoji  extractEmojis (useChatParser.js) applied to bounded texts  *)
(*   SpecNode   parseMessageNode applied to bounded message containers     *)
(*   Spec       FileUpload.processFile + App.vue (handleFileSelected,      *)
(*              parseChatHTML, handleIgnoreInputChange)                    *)
(*   SpecDoc    parseChatHTML's message loop on bounded container lists    *)
(*   SpecTop    transformEmojiCount (chartTransforms.js)                   *)
(*   SpecChart  the time transforms of chartTransforms.js                  *)
(*   SpecClean  DOMPurify.sanitize as parseChatHTML configures it          *)
(*   SpecStore  the chat store (stores/chat)                               *)
(*                                                                         *)
(* A text is a sequence of code points; a code point is written by name    *)
(* ("smile" is U+1F60A).  A fixed phrase of the source ("Liked a message") *)
(* is one element of a text.  An emoji unit (a JS string returned by       *)
(* String.prototype.match) is a non-empty text.                            *)
(***************************************************************************)
EXTENDS Integers, Sequences, FiniteSets, TLC

VARIABLES
    \* SpecEmoji
    text,            \* argument of extractEmojis
    emojis,          \* extractEmojis(text)
    rejoined,        \* emojis.join('')
    emojis2,         \* extractEmojis(rejoined)
    epc,             \* "input" | "extracted" | "rejoined"
    \* SpecNode
    node,            \* a message container of the document tree
    message,         \* parseMessageNode(node)
    npc,             \* "input" | "parsed"
    \* Spec: FileUpload.vue
    error,           \* ref error
    \* Spec: App.vue
    selectedFile, parsedData, isParsingError, isParsing,
    ignoredEmojis, ignoreInput,
    reads,           \* handleFileSelected invocations suspended at file.text()
    \* SpecDoc
    containers,      \* doc.querySelectorAll('.pam._3-95._2ph-._a6-g.uiBoxWhite.noborder')
    conversation,    \* what parseChatHTML returns for them
    dpc,             \* "input" | "parsed"
    \* SpecTop
    emojiCount,      \* arguments of transformEmojiCount
    limit,
    ignoredSet,
    emojiChart,      \* its result
    tpc,             \* "input" | "done"
    \* SpecChart
    messages,        \* argument of the time transforms
    groupBy,
    chart,           \* result of the transform that ran
    cpc,             \* "input" | "timeline" | "dayOfWeek" | "hourOfDay" | "userOverTime"
    \* SpecClean
    rawHTML,         \* the markup read from the file, as a list of elements
    cleanHTML,       \* DOMPurify.sanitize(rawHTML, config)
    spc,             \* "input" | "sanitized"
    \* SpecStore: the refs of the chat store
    storeData,       \* parsedData of the store
    rawFile, fileName, parseError

emojiVars == <<text, emojis, rejoined, emojis2, epc>>
nodeVars  == <<node, message, npc>>
appVars   == <<error, selectedFile, parsedData, isParsingError, isParsing,
               ignoredEmojis, ignoreInput, reads>>
docVars   == <<containers, conversation, dpc>>
topVars   == <<emojiCount, limit, ignoredSet, emojiChart, tpc>>
chartVars == <<messages, groupBy, chart, cpc>>
cleanVars == <<rawHTML, cleanHTML, spc>>
storeVars == <<storeData, rawFile, fileName, parseError>>
vars      == <<emojiVars, nodeVars, appVars, docVars, topVars, chartVars,
               cleanVars, storeVars>>

\* a JS null where the other values are strings
NULL == "null"
\* a JS value that is null or an object/array: <<>> for null, <<x>> for x
None == <<>>
Some(x) == <<x>>

\* ------------------------------------------------------------------------
\* Bounds
\* ------------------------------------------------------------------------
MaxTextLen == 3      \* longest free text given to extractEmojis
MaxReads == 2        \* handleFileSelected invocations in flight at once
MaxIgnoreLen == 2    \* longest text typed into the ignore-emoji input

\* ------------------------------------------------------------------------
\* Sequence helpers
\* ------------------------------------------------------------------------
SeqsUpTo(S, n) == UNION {[1..k -> S] : k \in 0..n}

RECURSIVE Join(_)
\* Array.prototype.join(''): concatenation of the units
Join(us) == IF us = <<>> THEN <<>> ELSE Head(us) \o Join(Tail(us))

\* ------------------------------------------------------------------------
\* Code points and their Unicode properties (emoji-data.txt)
\* ------------------------------------------------------------------------
\* smile U+1F60A, man U+1F468, woman U+1F469, girl U+1F467, boy U+1F466,
\* skin U+1F3FD (medium skin tone modifier), heart U+2764, mahjong U+1F004,
\* zwj U+200D, vs16 U+FE0F, keycap U+20E3, one U+0031, hash U+0023,
\* star U+002A, a U+0061, sp U+0020
Persons == {"man", "woman", "girl", "boy"}

\* \p{Emoji} in its place: digits, '#' and '*' have that property
EmojiProperty == {"smile", "skin", "mahjong", "heart", "one", "hash", "star"} \cup Persons

\* \p{Emoji_Presentation}: the modifiers U+1F3FB..U+1F3FF have the property;
\* digits, '#', '*' and U+20E3 do not
EmojiPresentation == {"smile", "skin", "mahjong"} \cup Persons

\* \p{Extended_Pictographic}: the modifiers do not have the property
ExtendedPictographic == {"smile", "heart", "mahjong"} \cup Persons

SkinToneModifiers == {"skin"}

\* what MatchLen would be if the regex bound a following modifier to its base
EmojiMatchLenBinding(t, i) ==
    IF t[i] \in EmojiPresentation \cup ExtendedPictographic
    THEN IF i < Len(t) /\ t[i + 1] \in SkinToneModifiers THEN 2 ELSE 1
    ELSE 0

\* length of the match of /\p{Emoji_Presentation}|\p{Extended_Pictographic}/u
\* at position i of t (0: no match there): one code point, never more
EmojiMatchLen(t, i) ==
    IF t[i] \in EmojiPresentation \cup ExtendedPictographic THEN 1 ELSE 0

RECURSIVE EmojiMatchFrom(_, _)
\* text.match(regex) with the g flag: all matches, left to right, each scan
\* resuming after the previous match
EmojiMatchFrom(t, i) ==
    IF i > Len(t) THEN <<>>
    ELSE LET n == EmojiMatchLen(t, i) IN
         IF n = 0 THEN EmojiMatchFrom(t, i + 1)
         ELSE <<SubSeq(t, i, i + n - 1)>> \o EmojiMatchFrom(t, i + n)

\* the matches with the repeats of the first unit dropped
extractEmojisDistinct(t) ==
    LET m == IF t = <<>> THEN <<>> ELSE EmojiMatchFrom(t, 1) IN
    IF m = <<>> THEN <<>>
    ELSE <<m[1]>> \o SelectSeq(Tail(m), LAMBDA u : u # m[1])

\* extractEmojis(text), text a string: [] for '' (!text), else the matches
extractEmojis(t) ==
    IF t = <<>> THEN <<>> ELSE EmojiMatchFrom(t, 1)

\* ------------------------------------------------------------------------
\* SpecEmoji: extractEmojis on bounded inputs
\* ------------------------------------------------------------------------
EmojiAlphabet == {"a", "smile", "skin", "zwj", "vs16", "heart", "man",
                  "one", "hash", "star", "keycap"}
PlainChars == {"a", "one", "hash", "star", "sp"}

\* person ZWJ person ZWJ person ZWJ person, optionally followed by U+FE0F
FamilySequences ==
    {<<p[1], "zwj", p[2], "zwj", p[3], "zwj", p[4]>> \o v :
        p \in [1..4 -> Persons], v \in {<<>>, <<"vs16">>}}

\* texts whose only emoji is one family sequence
FamilyTexts ==
    {pre \o fam \o post :
        pre \in {<<>>, <<"a">>}, fam \in FamilySequences, post \in {<<>>, <<"a">>}}

EmojiInputs == SeqsUpTo(EmojiAlphabet, MaxTextLen) \cup FamilyTexts

EmojiIdle == text = <<>> /\ emojis = <<>> /\ rejoined = <<>> /\ emojis2 = <<>>
             /\ epc = "idle"

InitEmoji ==
    /\ text \in EmojiInputs
    /\ emojis = <<>> /\ rejoined = <<>> /\ emojis2 = <<>>
    /\ epc = "input"

\* emojis = extractEmojis(text)
Extract ==
    /\ epc = "input"
    /\ emojis' = extractEmojis(text)
    /\ epc' = "extracted"
    /\ UNCHANGED <<text, rejoined, emojis2, nodeVars, appVars, docVars, topVars, chartVars, cleanVars,
                   storeVars>>

\* extractEmojis(emojis.join(''))
Reextract ==
    /\ epc = "extracted"
    /\ rejoined' = Join(emojis)
    /\ emojis2' = extractEmojis(Join(emojis))
    /\ epc' = "rejoined"
    /\ UNCHANGED <<text, emojis, nodeVars, appVars, docVars, topVars, chartVars, cleanVars,
                   storeVars>>


\* ------------------------------------------------------------------------
\* parseMessageNode and its helpers (useChatParser.js)
\* ------------------------------------------------------------------------
StartsWith(t, pre) == Len(t) >= Len(pre) /\ SubSeq(t, 1, Len(pre)) = pre

\* String.prototype.includes
Includes(t, sub) ==
    \E i \in 1..(Len(t) - Len(sub) + 1) : SubSeq(t, i, i + Len(sub) - 1) = sub

RECURSIVE TrimStart(_)
TrimStart(t) == IF t # <<>> /\ Head(t) = "sp" THEN TrimStart(Tail(t)) ELSE t

RECURSIVE TrimEnd(_)
TrimEnd(t) ==
    IF t # <<>> /\ t[Len(t)] = "sp" THEN TrimEnd(SubSeq(t, 1, Len(t) - 1)) ELSE t

\* String.prototype.trim
Trim(t) == TrimEnd(TrimStart(t))

\* 'You sent an attachment' is 'You ' followed by 'sent an attachment'
YouSentAnAttachment == <<"You ", "sent an attachment">>
SentAnAttachment == <<"sent an attachment">>
LikedAMessage == <<"Liked a message">>
AudioCallEnded == <<"Audio call ended">>
StartedAnAudioCall == <<"started an audio call">>

RECURSIVE getDirectTextContent(_)
\* divs: the textContent of each div under the content element, in document
\* order; the result is [] or the one text pushed before the break
getDirectTextContent(divs) ==
    IF divs = <<>> THEN <<>>
    ELSE LET t == Trim(Head(divs)) IN
         IF t # <<>> /\ ~StartsWith(t, YouSentAnAttachment)
                     /\ ~StartsWith(t, LikedAMessage)
         THEN <<t>>
         ELSE getDirectTextContent(Tail(divs))

\* Date.UTC(year, month - 1, day) in days since 1970-01-01 (proleptic Gregorian)
DaysFromCivil(year, month, day) ==
    LET y   == IF month <= 2 THEN year - 1 ELSE year
        era == y \div 400
        yoe == y - era * 400
        mp  == IF month > 2 THEN month - 3 ELSE month + 9
        doy == (153 * mp + 2) \div 5 + day - 1
        doe == yoe * 365 + yoe \div 4 - yoe \div 100 + doy
    IN era * 146097 + doe - 719468

\* getFullYear(), getMonth() + 1 and getDate() of a day number
CivilOf(days) ==
    LET z   == days + 719468
        era == z \div 146097
        doe == z - era * 146097
        yoe == (doe - doe \div 1460 + doe \div 36524 - doe \div 146096) \div 365
        doy == doe - (365 * yoe + yoe \div 4 - yoe \div 100)
        mp  == (5 * doy + 2) \div 153
        m   == IF mp < 10 THEN mp + 3 ELSE mp - 9
    IN [year  |-> yoe + era * 400 + (IF m <= 2 THEN 1 ELSE 0),
        month |-> m,
        day   |-> doy - (153 * mp + 2) \div 5 + 1]

\* a time value: whole hours of local time since 1970-01-01 00:00 (nothing in
\* the program looks below the hour)
LocalTime(year, month, day, hour) == DaysFromCivil(year, month, day) * 24 + hour

\* a Date, the time value NaN for an Invalid Date; NullTimestamp is null
NullTimestamp == [isDate |-> FALSE, isNaN |-> FALSE, time |-> 0]
Date(n) == [isDate |-> TRUE, isNaN |-> FALSE, time |-> n]
InvalidDate == [isDate |-> TRUE, isNaN |-> TRUE, time |-> 0]

\* new Date(string): the time value of a date string, NaN for any other text
DateOfText(s) ==
    CASE s = "Oct 16, 2025 5:28 am" -> Date(LocalTime(2025, 10, 16, 5))
      [] s = "Oct 17, 2025 9:00 pm" -> Date(LocalTime(2025, 10, 17, 21))
      [] OTHER -> InvalidDate

\* parseTimestamp: new Date(text) never throws, so the catch never runs
parseTimestamp(s) == DateOfText(s)

\* determineMessageType with the rules in another order: img before phrases
determineMessageTypeImgFirst(content, n) ==
    IF n.hasImg THEN "image"
    ELSE IF Includes(content, YouSentAnAttachment) \/ Includes(content, SentAnAttachment)
    THEN "attachment"
    ELSE IF Includes(content, AudioCallEnded) \/ Includes(content, StartedAnAudioCall)
    THEN "call"
    ELSE IF Includes(content, LikedAMessage) THEN "reaction"
    ELSE IF n.hasAudio THEN "audio"
    ELSE IF Len(content) = 0 THEN "empty"
    ELSE "text"

determineMessageType(content, n) ==
    IF Includes(content, YouSentAnAttachment) \/ Includes(content, SentAnAttachment)
    THEN "attachment"
    ELSE IF Includes(content, AudioCallEnded) \/ Includes(content, StartedAnAudioCall)
    THEN "call"
    ELSE IF Includes(content, LikedAMessage) THEN "reaction"
    ELSE IF n.hasImg THEN "image"
    ELSE IF n.hasAudio THEN "audio"
    ELSE IF Len(content) = 0 THEN "empty"
    ELSE "text"

\* textNodes.join(' ').trim() for the at most one text of getDirectTextContent
ContentOf(n) ==
    IF n.content = None THEN <<>>
    ELSE LET textNodes == getDirectTextContent(n.content[1]) IN
         IF textNodes = <<>> THEN <<>> ELSE Trim(textNodes[1])

\* parseMessageNode(node): None for null, else Some(message); an exception
\* in the try block is caught and logged, and null returned
parseMessageNode(n) ==
    IF n.sender = None THEN None
    ELSE IF n.throws THEN None
    ELSE LET content == ContentOf(n) IN
         Some([sender    |-> Trim(n.sender[1]),
               content   |-> content,
               timestamp |-> IF n.timestamp = None THEN NullTimestamp
                             ELSE parseTimestamp(n.timestamp[1]),
               emojis    |-> extractEmojis(content),
               type      |-> determineMessageType(content, n)])

\* ------------------------------------------------------------------------
\* SpecNode: parseMessageNode on bounded containers
\* ------------------------------------------------------------------------
MaxDivTextLen == 2   \* longest text of the first div of a content element
MaxDivs == 2         \* most divs under a content element

NodeChars == {"hi", "sp", "smile", "You ", "sent an attachment",
              "Liked a message", "Audio call ended", "started an audio call"}
DivTexts == SeqsUpTo(NodeChars, MaxDivTextLen)
LaterDivTexts == {<<>>, <<"hi">>, <<"Liked a message">>}

\* the div texts of a content element
ContentDivLists ==
    {<<>>} \cup {<<d>> \o rest :
                    d \in DivTexts, rest \in SeqsUpTo(LaterDivTexts, MaxDivs - 1)}

\* textContent of the sender h2
SenderTexts == {<<>>, <<"sp">>, <<"Alice">>, <<"sp", "Bob", "sp">>}
TimestampTexts == {"Oct 16, 2025 5:28 am", "Oct 17, 2025 9:00 pm", "not a date"}

\* a container: each of the three marked elements may be absent (None);
\* throws: a statement of the try block of parseMessageNode raises on it
Nodes ==
    [sender    : {None} \cup {Some(s) : s \in SenderTexts},
     content   : {None} \cup {Some(d) : d \in ContentDivLists},
     timestamp : {None} \cup {Some(s) : s \in TimestampTexts},
     hasImg    : BOOLEAN,
     hasAudio  : BOOLEAN,
     throws    : BOOLEAN]

NoNode == [sender |-> None, content |-> None, timestamp |-> None,
           hasImg |-> FALSE, hasAudio |-> FALSE, throws |-> FALSE]

NodeIdle == node = NoNode /\ message = None /\ npc = "idle"

InitNode ==
    /\ node \in Nodes
    /\ message = None
    /\ npc = "input"

\* message = parseMessageNode(node)
ParseNode ==
    /\ npc = "input"
    /\ message' = parseMessageNode(node)
    /\ npc' = "parsed"
    /\ UNCHANGED <<node, emojiVars, appVars, docVars, topVars, chartVars, cleanVars,
                   storeVars>>


\* ------------------------------------------------------------------------
\* JS objects used as maps: the entries [k, v] in insertion order
\* ------------------------------------------------------------------------
ObjHas(o, key) == \E i \in 1..Len(o) : o[i].k = key

ObjGet(o, key) == o[CHOOSE i \in 1..Len(o) : o[i].k = key].v

\* o[key] = val: an existing key keeps its place, a new key is appended
ObjSet(o, key, val) ==
    IF ObjHas(o, key)
    THEN [i \in 1..Len(o) |-> IF o[i].k = key THEN [k |-> key, v |-> val] ELSE o[i]]
    ELSE Append(o, [k |-> key, v |-> val])

\* o[key] = (o[key] || 0) + 1
ObjInc(o, key) == ObjSet(o, key, (IF ObjHas(o, key) THEN ObjGet(o, key) ELSE 0) + 1)

ObjKeys(o) == {o[i].k : i \in 1..Len(o)}

RECURSIVE ObjSum(_)
ObjSum(o) == IF o = <<>> THEN 0 ELSE Head(o).v + ObjSum(Tail(o))

RECURSIVE InsertDescUnstable(_, _)
\* an unstable sort: e goes before the entries of equal count
InsertDescUnstable(sorted, e) ==
    IF sorted = <<>> THEN <<e>>
    ELSE IF Head(sorted).count > e.count
         THEN <<Head(sorted)>> \o InsertDescUnstable(Tail(sorted), e)
         ELSE <<e>> \o sorted

RECURSIVE InsertDesc(_, _)
\* place e after every entry whose count is >= its own (stable)
InsertDesc(sorted, e) ==
    IF sorted = <<>> THEN <<e>>
    ELSE IF Head(sorted).count >= e.count
         THEN <<Head(sorted)>> \o InsertDesc(Tail(sorted), e)
         ELSE <<e>> \o sorted

RECURSIVE SortByCountDesc(_)
\* Array.prototype.sort((a, b) => b.count - a.count), a stable sort
SortByCountDesc(es) ==
    IF es = <<>> THEN <<>>
    ELSE InsertDesc(SortByCountDesc(SubSeq(es, 1, Len(es) - 1)), es[Len(es)])

\* Object.entries(totalEmojiCount).map(([emoji, count]) => ({emoji, count})).sort(..)
TopEmojisOf(totalEmojiCount) ==
    SortByCountDesc([i \in 1..Len(totalEmojiCount) |->
        [emoji |-> totalEmojiCount[i].k, count |-> totalEmojiCount[i].v]])

RECURSIVE FilterInverted(_, _)
\* the filter with its test inverted: ignored.has(emoji) without the !
FilterInverted(es, ignored) ==
    IF es = <<>> THEN <<>>
    ELSE IF Head(es) \notin ignored THEN FilterInverted(Tail(es), ignored)
         ELSE <<Head(es)>> \o FilterInverted(Tail(es), ignored)

RECURSIVE Filter(_, _)
\* message.emojis.filter(emoji => !ignored.has(emoji))
Filter(es, ignored) ==
    IF es = <<>> THEN <<>>
    ELSE IF Head(es) \in ignored THEN Filter(Tail(es), ignored)
         ELSE <<Head(es)>> \o Filter(Tail(es), ignored)

EmptyStats == [messageCountByUser |-> <<>>, emojiCountByUser |-> <<>>,
               totalEmojiCount |-> <<>>]

RECURSIVE CountEmojis(_, _, _)
\* the inner loop over one message's emojis: per-user count, then total count
CountEmojis(acc, sender, es) ==
    IF es = <<>> THEN acc
    ELSE CountEmojis(
           [acc EXCEPT
              !.emojiCountByUser =
                  ObjSet(@, sender, ObjInc(ObjGet(@, sender), Head(es))),
              !.totalEmojiCount = ObjInc(@, Head(es))],
           sender, Tail(es))

\* the iteration with the message counted only when it has an emoji to count
CountMessageWithEmojiOnly(acc, sender, es) ==
    CountEmojis(
      [acc EXCEPT
         !.messageCountByUser = IF es = <<>> THEN @ ELSE ObjInc(@, sender),
         !.emojiCountByUser = IF ObjHas(@, sender) THEN @ ELSE ObjSet(@, sender, <<>>)],
      sender, es)

\* one iteration of the loop over the messages, es the emojis it counts
CountMessage(acc, sender, es) ==
    CountEmojis(
      [acc EXCEPT
         !.messageCountByUser = ObjInc(@, sender),
         !.emojiCountByUser = IF ObjHas(@, sender) THEN @ ELSE ObjSet(@, sender, <<>>)],
      sender, es)

WithTopEmojis(acc) ==
    [messageCountByUser |-> acc.messageCountByUser,
     emojiCountByUser   |-> acc.emojiCountByUser,
     totalEmojiCount    |-> acc.totalEmojiCount,
     topEmojis          |-> TopEmojisOf(acc.totalEmojiCount)]

RECURSIVE CalcLoop(_, _)
CalcLoop(acc, msgs) ==
    IF msgs = <<>> THEN acc
    ELSE CalcLoop(CountMessage(acc, Head(msgs).sender, Head(msgs).emojis), Tail(msgs))

\* calculateStatistics(messages) of useChatParser.js: no ignore set
calculateStatistics(msgs) == WithTopEmojis(CalcLoop(EmptyStats, msgs))

RECURSIVE RecalcLoop(_, _, _)
RecalcLoop(acc, msgs, ignored) ==
    IF msgs = <<>> THEN acc
    ELSE RecalcLoop(
           CountMessage(acc, Head(msgs).sender, Filter(Head(msgs).emojis, ignored)),
           Tail(msgs), ignored)

\* the statistics recalculateStatistics of App.vue assigns
recalculatedStatistics(msgs, ignored) ==
    WithTopEmojis(RecalcLoop(EmptyStats, msgs, ignored))


\* ------------------------------------------------------------------------
\* parseChatHTML (useChatParser.js)
\* ------------------------------------------------------------------------
RECURSIVE ParseNodesUntilFailure(_)
\* the loop without the try/catch of parseMessageNode: the first exception
\* ends it
ParseNodesUntilFailure(ns) ==
    IF ns = <<>> THEN <<>>
    ELSE IF Head(ns).sender # None /\ Head(ns).throws THEN <<>>
    ELSE LET m == parseMessageNode(Head(ns)) IN
         (IF m = None THEN <<>> ELSE <<m[1]>>) \o ParseNodesUntilFailure(Tail(ns))

RECURSIVE ParseNodes(_)
\* the loop over messageNodes: a null message is not pushed
ParseNodes(ns) ==
    IF ns = <<>> THEN <<>>
    ELSE LET m == parseMessageNode(Head(ns)) IN
         (IF m = None THEN <<>> ELSE <<m[1]>>) \o ParseNodes(Tail(ns))

RECURSIVE AddAll(_, _)
\* Array.from(new Set) over the truthy senders: first-seen order, no duplicate
AddAll(seen, msgs) ==
    IF msgs = <<>> THEN seen
    ELSE LET s == Head(msgs).sender IN
         AddAll(IF s = <<>> \/ (\E i \in 1..Len(seen) : seen[i] = s)
                THEN seen ELSE Append(seen, s), Tail(msgs))

extractParticipants(msgs) == AddAll(<<>>, msgs)

\* start and end of the valid timestamps, both null when there is none
extractDateRange(msgs) ==
    LET valid == {msgs[i].timestamp.time :
                    i \in {j \in 1..Len(msgs) :
                             msgs[j].timestamp.isDate /\ ~msgs[j].timestamp.isNaN}}
    IN IF valid = {} THEN [start |-> NullTimestamp, end |-> NullTimestamp]
       ELSE [start |-> Date(CHOOSE a \in valid : \A b \in valid : a <= b),
             end   |-> Date(CHOOSE a \in valid : \A b \in valid : a >= b)]

\* DOMPurify.sanitize with ALLOWED_TAGS: 'header' is not allowed, so the element
\* is removed and its children stay; the container markup is all allowed
Sanitize(raw) ==
    [inHeaderH1 |-> None,
     h1         |-> raw.inHeaderH1,
     containers |-> raw.containers]

\* doc.querySelector('header h1') and the 'Unknown' default
ConversationTitle(doc) ==
    IF doc.inHeaderH1 = None THEN <<"Unknown">> ELSE Trim(doc.inHeaderH1[1])

\* the result with statistics computed from other messages than it returns
parseResultTorn(raw) ==
    LET doc  == Sanitize(raw)
        msgs == ParseNodes(doc.containers)
    IN [meta |-> [conversationTitle |-> ConversationTitle(doc),
                  totalMessages     |-> Len(msgs),
                  participants      |-> extractParticipants(msgs),
                  dateRange         |-> extractDateRange(msgs)],
        messages   |-> msgs,
        statistics |-> calculateStatistics(IF msgs = <<>> THEN msgs ELSE Tail(msgs))]

\* what parseChatHTML returns once file.text() has given raw (parsedAt left out)
parseResult(raw) ==
    LET doc  == Sanitize(raw)
        msgs == ParseNodes(doc.containers)
    IN [meta |-> [conversationTitle |-> ConversationTitle(doc),
                  totalMessages     |-> Len(msgs),
                  participants      |-> extractParticipants(msgs),
                  dateRange         |-> extractDateRange(msgs)],
        messages   |-> msgs,
        statistics |-> calculateStatistics(msgs)]

\* ------------------------------------------------------------------------
\* SpecTop: transformEmojiCount (chartTransforms.js) on bounded arguments
\* ------------------------------------------------------------------------
MaxLimit == 3        \* largest limit argument
MaxCount == 2        \* largest count of one emoji
MaxKeys == 3         \* most keys of emojiCount

Min(a, b) == IF a <= b THEN a ELSE b

\* Array.prototype.slice(0, n) for n >= 0
Slice(s, n) == SubSeq(s, 1, Min(n, Len(s)))

\* the top-N cut taken before the ignore filter
transformEmojiCountCutFirst(o, n, ignored) ==
    IF o = <<>> THEN [labels |-> <<>>, data |-> <<>>]
    ELSE LET sortedEntries == TopEmojisOf(o)
             topEntries == SelectSeq(Slice(sortedEntries, n),
                                     LAMBDA e : e.emoji \notin ignored)
         IN [labels |-> [i \in 1..Len(topEntries) |-> topEntries[i].emoji],
             data   |-> [i \in 1..Len(topEntries) |-> topEntries[i].count]]

\* transformEmojiCount(emojiCount, limit, ignoredEmojis): filter, sort, slice
transformEmojiCount(o, n, ignored) ==
    IF o = <<>> THEN [labels |-> <<>>, data |-> <<>>]
    ELSE LET filteredEntries == SelectSeq(o, LAMBDA e : e.k \notin ignored)
             sortedEntries == TopEmojisOf(filteredEntries)
             topEntries == Slice(sortedEntries, n)
         IN [labels |-> [i \in 1..Len(topEntries) |-> topEntries[i].emoji],
             data   |-> [i \in 1..Len(topEntries) |-> topEntries[i].count]]

TopKeys == {<<"smile">>, <<"heart">>, <<"man">>}

\* the objects { emoji: count }: distinct keys in any insertion order
EmojiCounts ==
    {o \in SeqsUpTo([k : TopKeys, v : 1..MaxCount], MaxKeys) :
        \A i, j \in 1..Len(o) : o[i].k = o[j].k => i = j}

TopIdle == emojiCount = <<>> /\ limit = 0 /\ ignoredSet = {} /\ emojiChart = None
           /\ tpc = "idle"

InitTop ==
    /\ emojiCount \in EmojiCounts
    /\ limit \in 0..MaxLimit
    /\ ignoredSet \in SUBSET TopKeys
    /\ emojiChart = None
    /\ tpc = "input"

\* emojiChart = transformEmojiCount(emojiCount, limit, ignoredSet)
TransformEmojiCount ==
    /\ tpc = "input"
    /\ emojiChart' = Some(transformEmojiCount(emojiCount, limit, ignoredSet))
    /\ tpc' = "done"
    /\ UNCHANGED <<emojiCount, limit, ignoredSet, emojiVars, nodeVars, appVars,
                   docVars, chartVars, cleanVars,
                   storeVars>>

\* ------------------------------------------------------------------------
\* SpecChart: the time transforms of chartTransforms.js on bounded message
\* lists.  A key or label is a string, written as the sequence of its
\* characters.
\* ------------------------------------------------------------------------
MaxMsgs == 2         \* most messages of a list

Digits == <<"0", "1", "2", "3", "4", "5", "6", "7", "8", "9">>

\* the characters of the keys in the order String.prototype.localeCompare
\* puts them: punctuation, digits, letters
Collation == <<" ", "-", ":">> \o Digits \o <<"a", "N", "W">>

CharRank(c) == CHOOSE i \in 1..Len(Collation) : Collation[i] = c

RECURSIVE KeyLess(_, _)
\* a.localeCompare(b) < 0
KeyLess(a, b) ==
    IF b = <<>> THEN FALSE
    ELSE IF a = <<>> THEN TRUE
    ELSE IF Head(a) = Head(b) THEN KeyLess(Tail(a), Tail(b))
    ELSE CharRank(Head(a)) < CharRank(Head(b))

\* Array.from(map.entries()).sort((a, b) => a[0].localeCompare(b[0])): the
\* keys of a Map are distinct
SortByKey(o) ==
    [i \in 1..Len(o) |->
        o[CHOOSE j \in 1..Len(o) :
              Cardinality({m \in 1..Len(o) : KeyLess(o[m].k, o[j].k)}) = i - 1]]

RECURSIVE NumStr(_)
\* num.toString() of a natural number
NumStr(n) ==
    IF n < 10 THEN <<Digits[n + 1]>>
    ELSE NumStr(n \div 10) \o <<Digits[(n % 10) + 1]>>

\* padZero(num): num.toString().padStart(2, '0')
padZero(n) == IF Len(NumStr(n)) < 2 THEN <<"0">> \o NumStr(n) ELSE NumStr(n)

\* every getter of an Invalid Date gives NaN, which prints as 'NaN' and which
\* padStart leaves as it is
NaNStr == <<"N", "a", "N">>
YearStr(d) == IF d.isNaN THEN NaNStr ELSE NumStr(CivilOf(d.time \div 24).year)
Pad(d, n) == IF d.isNaN THEN NaNStr ELSE padZero(n)

\* getDay() / getUTCDay() of a day number: 1970-01-01 was a Thursday
getDay(days) == (days + 4) % 7

\* getWeekNumber(date): the Thursday of the date's week, counted in weeks from
\* the first of January of the Thursday's year
getWeekNumber(days) ==
    LET dayNum    == IF getDay(days) = 0 THEN 7 ELSE getDay(days)
        d         == days + 4 - dayNum
        yearStart == DaysFromCivil(CivilOf(d).year, 1, 1)
    IN ((d - yearStart) + 1 + 6) \div 7

\* getWeekKey(date): the calendar year of the date with the ISO week number
getWeekKey(d) == YearStr(d) \o <<"-", "W">> \o Pad(d, getWeekNumber(d.time \div 24))

\* the template literals of the switch statements
MonthKey(d) == YearStr(d) \o <<"-">> \o Pad(d, CivilOf(d.time \div 24).month)
DayKey(d) == MonthKey(d) \o <<"-">> \o Pad(d, CivilOf(d.time \div 24).day)
HourKey(d) == DayKey(d) \o <<" ">> \o Pad(d, d.time % 24) \o <<":", "0", "0">>

\* switch (groupBy) of transformMessagesTimeline
TimelineKey(d, g) ==
    CASE g = "hour"  -> HourKey(d)
      [] g = "week"  -> getWeekKey(d)
      [] g = "month" -> MonthKey(d)
      [] OTHER       -> DayKey(d)

\* switch (groupBy) of transformActivityByUserOverTime: no case 'hour'
UserTimeKey(d, g) ==
    CASE g = "week"  -> getWeekKey(d)
      [] g = "month" -> MonthKey(d)
      [] OTHER       -> DayKey(d)

RECURSIVE TimelineLoop(_, _, _)
\* messages.forEach of transformMessagesTimeline: a null timestamp is skipped,
\* an Invalid Date is an object and is not
TimelineLoop(groupedData, msgs, g) ==
    IF msgs = <<>> THEN groupedData
    ELSE TimelineLoop(
           IF ~Head(msgs).timestamp.isDate THEN groupedData
           ELSE ObjInc(groupedData, TimelineKey(Head(msgs).timestamp, g)),
           Tail(msgs), g)

transformMessagesTimeline(msgs, g) ==
    IF msgs = <<>> THEN [labels |-> <<>>, data |-> <<>>]
    ELSE LET sortedEntries == SortByKey(TimelineLoop(<<>>, msgs, g)) IN
         [labels |-> [i \in 1..Len(sortedEntries) |-> sortedEntries[i].k],
          data   |-> [i \in 1..Len(sortedEntries) |-> sortedEntries[i].v]]

RECURSIVE DayLoop(_, _)
\* counts[date.getDay()]++ (counts[i + 1] here); with an Invalid Date it is
\* counts[NaN]++, which sets a property 'NaN' and no element
DayLoop(counts, msgs) ==
    IF msgs = <<>> THEN counts
    ELSE LET ts == Head(msgs).timestamp IN
         DayLoop(IF ~ts.isDate \/ ts.isNaN THEN counts
                 ELSE [counts EXCEPT ![getDay(ts.time \div 24) + 1] = @ + 1],
                 Tail(msgs))

\* the same with the zero buckets left out of labels and data
transformActivityByDayOfWeekSparse(msgs) ==
    IF msgs = <<>> THEN [labels |-> <<>>, data |-> <<>>]
    ELSE LET counts == DayLoop([i \in 1..7 |-> 0], msgs)
             days == <<"Sunday", "Monday", "Tuesday", "Wednesday", "Thursday",
                       "Friday", "Saturday">> IN
         [labels |-> SelectSeq(days, LAMBDA n :
                         \E i \in 1..7 : days[i] = n /\ counts[i] > 0),
          data   |-> SelectSeq(counts, LAMBDA c : c > 0)]

transformActivityByDayOfWeek(msgs) ==
    IF msgs = <<>> THEN [labels |-> <<>>, data |-> <<>>]
    ELSE [labels |-> <<"Sunday", "Monday", "Tuesday", "Wednesday", "Thursday",
                       "Friday", "Saturday">>,
          data   |-> DayLoop([i \in 1..7 |-> 0], msgs)]

RECURSIVE HourLoop(_, _)
\* counts[date.getHours()]++
HourLoop(counts, msgs) ==
    IF msgs = <<>> THEN counts
    ELSE LET ts == Head(msgs).timestamp IN
         HourLoop(IF ~ts.isDate \/ ts.isNaN THEN counts
                  ELSE [counts EXCEPT ![(ts.time % 24) + 1] = @ + 1],
                  Tail(msgs))

transformActivityByHourOfDay(msgs) ==
    IF msgs = <<>> THEN [labels |-> <<>>, data |-> <<>>]
    ELSE [labels |-> [i \in 1..24 |-> padZero(i - 1) \o <<":", "0", "0">>],
          data   |-> HourLoop([i \in 1..24 |-> 0], msgs)]

RECURSIVE UserLoop(_, _, _)
\* messages.forEach of transformActivityByUserOverTime: a null timestamp or
\* an empty sender is skipped
UserLoop(timeUserMap, msgs, g) ==
    IF msgs = <<>> THEN timeUserMap
    ELSE LET m       == Head(msgs)
             key     == UserTimeKey(m.timestamp, g)
             userMap == IF ObjHas(timeUserMap, key) THEN ObjGet(timeUserMap, key)
                        ELSE <<>> IN
         UserLoop(IF ~m.timestamp.isDate \/ m.sender = <<>> THEN timeUserMap
                  ELSE ObjSet(timeUserMap, key, ObjInc(userMap, m.sender)),
                  Tail(msgs), g)

transformActivityByUserOverTime(msgs, g) ==
    IF msgs = <<>> THEN [labels |-> <<>>, datasets |-> <<>>]
    ELSE LET sorted == SortByKey(UserLoop(<<>>, msgs, g))
             users  == AddAll(<<>>, msgs) IN
         [labels   |-> [k \in 1..Len(sorted) |-> sorted[k].k],
          datasets |-> [u \in 1..Len(users) |->
              [username |-> users[u],
               data     |-> [k \in 1..Len(sorted) |->
                               IF ObjHas(sorted[k].v, users[u])
                               THEN ObjGet(sorted[k].v, users[u]) ELSE 0]]]]

\* the messages the parser can emit, as far as the transforms read them: the
\* sender (empty for an empty h2) and the timestamp (null, Invalid Date, or a
\* time around the turn of a year)
ChartMessages ==
    {[sender |-> s, content |-> <<>>, timestamp |-> ts, emojis |-> <<>>,
      type |-> "empty"] :
        s \in {<<"Alice">>, <<"Bob">>, <<>>},
        ts \in {NullTimestamp, InvalidDate,
                Date(LocalTime(2024, 12, 29, 23)), Date(LocalTime(2024, 12, 30, 9)),
                Date(LocalTime(2024, 12, 30, 21)), Date(LocalTime(2025, 1, 1, 0))}}

ChartIdle == messages = <<>> /\ groupBy = "day" /\ chart = None /\ cpc = "idle"

InitChart ==
    /\ messages \in SeqsUpTo(ChartMessages, MaxMsgs)
    /\ groupBy \in {"hour", "day", "week", "month"}
    /\ chart = None
    /\ cpc = "input"

Timeline ==
    /\ cpc = "input"
    /\ chart' = Some(transformMessagesTimeline(messages, groupBy))
    /\ cpc' = "timeline"
    /\ UNCHANGED <<messages, groupBy, emojiVars, nodeVars, appVars, docVars, topVars,
                   cleanVars, storeVars>>

ActivityByDayOfWeek ==
    /\ cpc = "input"
    /\ chart' = Some(transformActivityByDayOfWeek(messages))
    /\ cpc' = "dayOfWeek"
    /\ UNCHANGED <<messages, groupBy, emojiVars, nodeVars, appVars, docVars, topVars,
                   cleanVars, storeVars>>

ActivityByHourOfDay ==
    /\ cpc = "input"
    /\ chart' = Some(transformActivityByHourOfDay(messages))
    /\ cpc' = "hourOfDay"
    /\ UNCHANGED <<messages, groupBy, emojiVars, nodeVars, appVars, docVars, topVars,
                   cleanVars, storeVars>>

ActivityByUserOverTime ==
    /\ cpc = "input"
    /\ chart' = Some(transformActivityByUserOverTime(messages, groupBy))
    /\ cpc' = "userOverTime"
    /\ UNCHANGED <<messages, groupBy, emojiVars, nodeVars, appVars, docVars, topVars,
                   cleanVars, storeVars>>

\* ------------------------------------------------------------------------
\* SpecClean: DOMPurify.sanitize with the configuration of parseChatHTML on
\* bounded markup.  An element is its tag, the names of its attributes and
\* its child elements.
\* ------------------------------------------------------------------------
MaxElems == 2        \* most top-level elements of the markup

ALLOWED_TAGS == {"html", "head", "body", "div", "h1", "h2", "h3", "p", "span",
                 "a", "img", "audio", "ul", "li"}
ALLOWED_ATTR == {"class", "href", "src", "target"}

\* SanitizeElements that leaves the children of a removed element as they are
SanitizeElementsShallow(es) ==
    LET One(e) ==
          IF e.tag \in ALLOWED_TAGS
          THEN <<[tag |-> e.tag,
                  attrs |-> e.attrs \cap (ALLOWED_ATTR \cup {"data-id", "aria-label"}),
                  children |-> e.children]>>
          ELSE IF e.tag \in {"script", "iframe"} THEN <<>>
          ELSE e.children
    IN IF es = <<>> THEN <<>>
       ELSE One(es[1]) \o (IF Len(es) > 1 THEN One(es[2]) ELSE <<>>)
            \o (IF Len(es) > 2 THEN One(es[3]) ELSE <<>>)

RECURSIVE SanitizeElements(_)
\* DOMPurify.sanitize on a list of sibling elements.  An element whose tag is
\* not allowed is removed: with its content when the tag is one of the
\* library's FORBID_CONTENTS (script, iframe), else its children take its place
\* (KEEP_CONTENT).  An attribute is kept when it is allowed or, by the
\* library's defaults ALLOW_DATA_ATTR and ALLOW_ARIA_ATTR, named data-* or
\* aria-*.
SanitizeElements(es) ==
    IF es = <<>> THEN <<>>
    ELSE LET e == Head(es) IN
         (IF e.tag \in ALLOWED_TAGS
          THEN <<[tag |-> e.tag,
                  attrs |-> e.attrs \cap (ALLOWED_ATTR \cup {"data-id", "aria-label"}),
                  children |-> SanitizeElements(e.children)]>>
          ELSE IF e.tag \in {"script", "iframe"} THEN <<>>
          ELSE SanitizeElements(e.children))
         \o SanitizeElements(Tail(es))

CleanIdle == rawHTML = <<>> /\ cleanHTML = <<>> /\ spc = "idle"

\* the markup of an uploaded file: up to MaxElems elements, each a childless
\* element of any tag and attribute set or a div or header around one
InitClean ==
    /\ LET leaves == [tag : {"div", "img", "header", "script", "iframe", "object"},
                      attrs : {{}, {"class", "data-id"},
                               {"src", "onerror", "aria-label"}},
                      children : {<<>>}]
           RawElements == leaves \cup [tag : {"div", "header"}, attrs : {{}},
                                       children : {<<l>> : l \in leaves}]
       IN rawHTML \in SeqsUpTo(RawElements, MaxElems)
    /\ cleanHTML = <<>>
    /\ spc = "input"

\* cleanHTML = DOMPurify.sanitize(rawHTML, {ALLOWED_TAGS, ALLOWED_ATTR})
SanitizeMarkup ==
    /\ spc = "input"
    /\ cleanHTML' = SanitizeElements(rawHTML)
    /\ spc' = "sanitized"
    /\ UNCHANGED <<rawHTML, emojiVars, nodeVars, appVars, docVars, topVars,
                   chartVars, storeVars>>

StoreIdle == storeData = None /\ rawFile = None /\ fileName = <<>> /\ parseError = NULL

\* ------------------------------------------------------------------------
\* SpecDoc: the message loop and the statistics of parseChatHTML on bounded
\* lists of containers
\* ------------------------------------------------------------------------
MaxContainers == 3   \* most containers of a document

\* containers of a document: three with a sender, one without, one that throws
DocNodes ==
    { [NoNode EXCEPT !.sender = Some(<<"Alice">>),
                     !.content = Some(<< <<"smile">> >>),
                     !.timestamp = Some("Oct 16, 2025 5:28 am")],
      [NoNode EXCEPT !.sender = Some(<<"Bob">>),
                     !.content = Some(<< <<"heart", "smile">> >>),
                     !.timestamp = Some("Oct 17, 2025 9:00 pm")],
      [NoNode EXCEPT !.sender = Some(<<"Alice">>),
                     !.content = Some(<< <<"heart", "heart", "man">> >>)],
      [NoNode EXCEPT !.content = Some(<< <<"hi">> >>)],
      [NoNode EXCEPT !.sender = Some(<<"Carol">>),
                     !.content = Some(<< <<"smile">> >>),
                     !.throws = TRUE] }

DocIdle == containers = <<>> /\ conversation = None /\ dpc = "idle"

InitDoc ==
    /\ containers \in SeqsUpTo(DocNodes, MaxContainers)
    /\ conversation = None
    /\ dpc = "input"

\* conversation = the value parseChatHTML resolves to for these containers
ParseDoc ==
    /\ dpc = "input"
    /\ conversation' = Some(parseResult([inHeaderH1 |-> None,
                                          containers |-> containers]))
    /\ dpc' = "parsed"
    /\ UNCHANGED <<containers, emojiVars, nodeVars, appVars, topVars, chartVars, cleanVars,
                   storeVars>>

\* ------------------------------------------------------------------------
\* The ignore-input regex of handleIgnoreInputChange (App.vue)
\* ------------------------------------------------------------------------
CodePoint(c) ==
    CASE c = "smile"   -> 128522   \* U+1F60A
      [] c = "man"     -> 128104   \* U+1F468
      [] c = "woman"   -> 128105   \* U+1F469
      [] c = "girl"    -> 128103   \* U+1F467
      [] c = "boy"     -> 128102   \* U+1F466
      [] c = "skin"    -> 127997   \* U+1F3FD
      [] c = "heart"   -> 10084    \* U+2764
      [] c = "mahjong" -> 126980   \* U+1F004
      [] c = "zwj"     -> 8205     \* U+200D
      [] c = "vs16"    -> 65039    \* U+FE0F
      [] c = "keycap"  -> 8419     \* U+20E3
      [] c = "one"     -> 49
      [] c = "hash"    -> 35
      [] c = "star"    -> 42
      [] c = "a"       -> 97
      [] c = "sp"      -> 32
      [] OTHER         -> 0        \* words and phrases: no emoji code point

\* the ranges of the base alternation; the ranges not listed here
\* (U+2614..U+27BF) lie inside U+2600..U+26FF and U+2700..U+27BF
IgnoreBaseRanges ==
    {<<128512, 128591>>, <<127744, 128511>>, <<128640, 128767>>,
     <<127456, 127487>>, <<8592, 8703>>, <<9728, 9983>>, <<9984, 10175>>,
     <<129280, 129535>>, <<129536, 129647>>, <<129648, 129791>>,
     <<8986, 8987>>, <<9193, 9196>>, <<9200, 9200>>, <<9203, 9203>>,
     <<9725, 9726>>, <<11035, 11036>>, <<11088, 11088>>, <<11093, 11093>>}

IsIgnoreBase(c) ==
    \E r \in IgnoreBaseRanges : r[1] <= CodePoint(c) /\ CodePoint(c) <= r[2]

\* [\u{1F3FB}-\u{1F3FF}]
IsSkinTone(c) == 127995 <= CodePoint(c) /\ CodePoint(c) <= 127999

At(t, i) == IF i >= 1 /\ i <= Len(t) THEN t[i] ELSE "end"

\* (?:[\u{1F3FB}-\u{1F3FF}]|\uFE0F\u20E3?)? from position i: code points taken
FirstModifierLen(t, i) ==
    IF IsSkinTone(At(t, i)) THEN 1
    ELSE IF At(t, i) = "vs16" THEN (IF At(t, i + 1) = "keycap" THEN 2 ELSE 1)
    ELSE 0

\* (?:[\u{1F3FB}-\u{1F3FF}]|\uFE0F)? from position i
JoinedModifierLen(t, i) ==
    IF IsSkinTone(At(t, i)) \/ At(t, i) = "vs16" THEN 1 ELSE 0

RECURSIVE JoinedLen(_, _)
\* (?:\u200D base modifier?)* from position i, greedy
JoinedLen(t, i) ==
    IF At(t, i) = "zwj" /\ IsIgnoreBase(At(t, i + 1))
    THEN LET n == 2 + JoinedModifierLen(t, i + 2) IN n + JoinedLen(t, i + n)
    ELSE 0

\* length of the match of the ignore regex at position i (0: no match)
IgnoreMatchLen(t, i) ==
    IF ~IsIgnoreBase(At(t, i)) THEN 0
    ELSE LET n == 1 + FirstModifierLen(t, i + 1) IN n + JoinedLen(t, i + n)

RECURSIVE IgnoreMatchFrom(_, _)
\* ignoreInput.value.match(emojiRegex) || []
IgnoreMatchFrom(t, i) ==
    IF i > Len(t) THEN <<>>
    ELSE LET n == IgnoreMatchLen(t, i) IN
         IF n = 0 THEN IgnoreMatchFrom(t, i + 1)
         ELSE <<SubSeq(t, i, i + n - 1)>> \o IgnoreMatchFrom(t, i + n)

\* new Set(emojis)
IgnoredSetOf(t) == LET m == IgnoreMatchFrom(t, 1) IN {m[i] : i \in 1..Len(m)}


\* ------------------------------------------------------------------------
\* Spec: FileUpload.vue and App.vue
\* ------------------------------------------------------------------------
\* const maxSize = 50 * 1024 * 1024
maxSize == 50 * 1024 * 1024

MkNode(sender, content, timestamp, img) ==
    [sender |-> sender, content |-> content, timestamp |-> timestamp,
     hasImg |-> img, hasAudio |-> FALSE, throws |-> FALSE]

\* uploaded documents: the h1 inside <header> and the message containers
DocAliceBob ==
    [inHeaderH1 |-> Some(<<"Alice">>),
     containers |->
       << MkNode(Some(<<"Alice">>), Some(<< <<"hi", "sp", "smile">> >>),
                 Some("Oct 16, 2025 5:28 am"), FALSE),
          MkNode(Some(<<"Bob">>), Some(<< <<"smile", "heart", "vs16">> >>),
                 Some("Oct 17, 2025 9:00 pm"), FALSE),
          MkNode(Some(<<"Alice">>), Some(<< <<"heart", "vs16">> >>), None, FALSE) >>]

DocBobOnly ==
    [inHeaderH1 |-> None,
     containers |->
       << MkNode(None, Some(<< <<"hi">> >>), None, FALSE),
          MkNode(Some(<<"Bob">>), None, Some("not a date"), TRUE),
          MkNode(Some(<<"Bob">>), Some(<< <<"smile", "smile">> >>), None, FALSE),
          MkNode(Some(<<"sp">>), Some(<< <<"heart">> >>), None, FALSE) >>]

EmptyDoc == [inHeaderH1 |-> None, containers |-> <<>>]

\* a File: name (its last element is the extension), type, size, the document
\* file.text() yields, or readable = FALSE when file.text() rejects
MkFile(name, type, size, readable, doc) ==
    [name |-> name, type |-> type, size |-> size, readable |-> readable, doc |-> doc]

Files ==
    { MkFile(<<"chat", ".html">>, "text/html", 1024, TRUE, DocAliceBob),
      MkFile(<<"export", ".htm">>, "", maxSize, TRUE, DocBobOnly),
      MkFile(<<"chat", ".txt">>, "text/html", 2048, FALSE, EmptyDoc),
      MkFile(<<"big", ".html">>, "text/html", maxSize + 1, TRUE, DocAliceBob),
      MkFile(<<"script", ".js">>, "application/javascript", 1024, TRUE, EmptyDoc),
      MkFile(<<"empty", ".html">>, "text/html", 0, TRUE, EmptyDoc) }

EndsWith(name, ext) == name # <<>> /\ name[Len(name)] = ext

IsHtml(f) == EndsWith(f.name, ".html") \/ EndsWith(f.name, ".htm") \/ f.type = "text/html"

\* the size test of processFile with the cap exclusive
OverMaxSizeExclusive(f) == f.size >= maxSize

\* file.size > maxSize
OverMaxSize(f) == f.size > maxSize

\* processFile without its test for an empty file
UploadErrorNoEmptyTest(f) ==
    IF ~IsHtml(f) THEN "Please upload an HTML file (.html or .htm)"
    ELSE IF OverMaxSize(f) THEN "File is too large. Maximum size is 50MB"
    ELSE NULL

\* the error processFile sets for f, NULL when it emits file-selected
UploadError(f) ==
    IF ~IsHtml(f) THEN "Please upload an HTML file (.html or .htm)"
    ELSE IF OverMaxSize(f) THEN "File is too large. Maximum size is 50MB"
    ELSE IF f.size = 0 THEN "File is empty"
    ELSE NULL

IgnoreAlphabet == {"smile", "heart", "vs16"}
IgnoreInputs == SeqsUpTo(IgnoreAlphabet, MaxIgnoreLen)

RemoveAt(q, i) == SubSeq(q, 1, i - 1) \o SubSeq(q, i + 1, Len(q))

InitApp ==
    /\ error = NULL
    /\ selectedFile = None
    /\ parsedData = None
    /\ isParsingError = NULL
    /\ isParsing = FALSE
    /\ ignoredEmojis = {}
    /\ ignoreInput = <<>>
    /\ reads = <<>>

AppIdle == InitApp

\* processFile(file) of FileUpload.vue; on success the emitted file-selected
\* runs handleFileSelected(file) of App.vue up to its await of file.text()
ProcessFile(f) ==
    /\ UploadError(f) = NULL => Len(reads) < MaxReads
    /\ error' = UploadError(f)
    /\ IF UploadError(f) = NULL
       THEN /\ selectedFile' = Some(f)
            /\ isParsing' = TRUE
            /\ isParsingError' = NULL
            /\ parsedData' = None
            /\ reads' = Append(reads, f)
       ELSE UNCHANGED <<selectedFile, isParsing, isParsingError, parsedData, reads>>
    /\ UNCHANGED <<ignoredEmojis, ignoreInput, emojiVars, nodeVars, docVars, topVars,
                   chartVars, cleanVars,
                   storeVars>>

\* file.text() of the i-th suspended invocation resolves: parseChatHTML runs
\* to its return and handleFileSelected to its end (try, finally)
ReadResolved(i) ==
    /\ i \in 1..Len(reads)
    /\ reads[i].readable
    /\ parsedData' = Some(parseResult(reads[i].doc))
    /\ isParsing' = FALSE
    /\ reads' = RemoveAt(reads, i)
    /\ UNCHANGED <<error, selectedFile, isParsingError, ignoredEmojis, ignoreInput,
                   emojiVars, nodeVars, docVars, topVars, chartVars, cleanVars,
                   storeVars>>

\* file.text() rejects: parseChatHTML rethrows, handleFileSelected catches
ReadRejected(i) ==
    /\ i \in 1..Len(reads)
    /\ ~reads[i].readable
    /\ isParsingError' = "Failed to parse chat file: read failed"
    /\ isParsing' = FALSE
    /\ reads' = RemoveAt(reads, i)
    /\ UNCHANGED <<error, selectedFile, parsedData, ignoredEmojis, ignoreInput,
                   emojiVars, nodeVars, docVars, topVars, chartVars, cleanVars,
                   storeVars>>

\* the user edits the ignore input (rendered only inside v-if="parsedData"):
\* v-model stores the text, then handleIgnoreInputChange and, parsedData being
\* set, recalculateStatistics
HandleIgnoreInputChange(t) ==
    /\ parsedData # None
    /\ ignoreInput' = t
    /\ ignoredEmojis' = IgnoredSetOf(t)
    /\ parsedData' = Some([parsedData[1] EXCEPT
           !.statistics = recalculatedStatistics(parsedData[1].messages, IgnoredSetOf(t))])
    /\ UNCHANGED <<error, selectedFile, isParsingError, isParsing, reads,
                   emojiVars, nodeVars, docVars, topVars, chartVars, cleanVars,
                   storeVars>>

\* ------------------------------------------------------------------------
\* SpecStore: the chat store.  Its refs start as StoreIdle; every step is one
\* call of one of its functions.
\* ------------------------------------------------------------------------
\* statistics objects handed to updateStatistics
StoreStats ==
    {EmptyStats} \cup
    {recalculatedStatistics(parseResult(f.doc).messages, IgnoredSetOf(t)) :
        f \in Files, t \in IgnoreInputs}

\* setParsedData(data)
SetParsedData(data) ==
    /\ storeData' = data
    /\ parseError' = NULL
    /\ UNCHANGED <<rawFile, fileName, emojiVars, nodeVars, appVars, docVars,
                   topVars, chartVars, cleanVars>>

\* setRawFile(file): fileName = file?.name || ''
SetRawFile(file) ==
    /\ rawFile' = file
    /\ fileName' = IF file = None THEN <<>> ELSE file[1].name
    /\ UNCHANGED <<storeData, parseError, emojiVars, nodeVars, appVars, docVars,
                   topVars, chartVars, cleanVars>>

\* setParseError(error)
SetParseError(e) ==
    /\ parseError' = e
    /\ UNCHANGED <<storeData, rawFile, fileName, emojiVars, nodeVars, appVars,
                   docVars, topVars, chartVars, cleanVars>>

\* clearData()
ClearData ==
    /\ storeData' = None
    /\ rawFile' = None
    /\ fileName' = <<>>
    /\ parseError' = NULL
    /\ UNCHANGED <<emojiVars, nodeVars, appVars, docVars, topVars, chartVars,
                   cleanVars>>

\* updateStatistics that rebuilds the object from meta and statistics alone
updateStatisticsRebuilt(pd, newStats) ==
    IF pd # None
    THEN Some([meta |-> pd[1].meta, messages |-> <<>>, statistics |-> newStats])
    ELSE pd

\* the value updateStatistics leaves in parsedData:
\* { ...parsedData.value, statistics: newStats } when parsedData.value is set
updateStatistics(pd, newStats) ==
    IF pd # None
    THEN Some([pd[1] EXCEPT !.statistics = newStats])
    ELSE pd

\* updateStatistics(newStats)
UpdateStatistics(newStats) ==
    /\ storeData' = updateStatistics(storeData, newStats)
    /\ UNCHANGED <<rawFile, fileName, parseError, emojiVars, nodeVars, appVars,
                   docVars, topVars, chartVars, cleanVars>>

NextStore ==
    \/ \E d \in {None} \cup {Some(parseResult(f.doc)) : f \in Files} : SetParsedData(d)
    \/ \E f \in {None} \cup {Some(f) : f \in Files} : SetRawFile(f)
    \/ \E e \in {NULL, "Failed to parse chat file: read failed"} : SetParseError(e)
    \/ ClearData
    \/ \E s \in StoreStats : UpdateStatistics(s)

Next ==
    \/ \E f \in Files : ProcessFile(f)
    \/ \E i \in 1..MaxReads : ReadResolved(i)
    \/ \E i \in 1..MaxReads : ReadRejected(i)
    \/ \E t \in IgnoreInputs : HandleIgnoreInputChange(t)

Init == InitApp /\ EmojiIdle /\ NodeIdle /\ DocIdle /\ TopIdle /\ ChartIdle
          /\ CleanIdle /\ StoreIdle
Spec == Init /\ [][Next]_vars
\* the refs of the store start at their initial values, as everything in Init
SpecStore == Init /\ [][NextStore]_vars

InitE == InitEmoji /\ NodeIdle /\ AppIdle /\ DocIdle /\ TopIdle /\ ChartIdle
          /\ CleanIdle /\ StoreIdle
NextEmoji == Extract \/ Reextract
SpecEmoji == InitE /\ [][NextEmoji]_vars

InitN == InitNode /\ EmojiIdle /\ AppIdle /\ DocIdle /\ TopIdle /\ ChartIdle
          /\ CleanIdle /\ StoreIdle
NextNode == ParseNode
SpecNode == InitN /\ [][NextNode]_vars

InitT == InitTop /\ EmojiIdle /\ NodeIdle /\ AppIdle /\ DocIdle /\ ChartIdle
          /\ CleanIdle /\ StoreIdle
NextTop == TransformEmojiCount
SpecTop == InitT /\ [][NextTop]_vars

InitC == InitChart /\ EmojiIdle /\ NodeIdle /\ AppIdle /\ DocIdle /\ TopIdle
          /\ CleanIdle /\ StoreIdle
NextChart ==
    \/ Timeline
    \/ ActivityByDayOfWeek
    \/ ActivityByHourOfDay
    \/ ActivityByUserOverTime
SpecChart == InitC /\ [][NextChart]_vars

InitS == InitClean /\ EmojiIdle /\ NodeIdle /\ AppIdle /\ DocIdle /\ TopIdle
          /\ ChartIdle /\ StoreIdle
SpecClean == InitS /\ [][SanitizeMarkup]_vars

InitD == InitDoc /\ EmojiIdle /\ NodeIdle /\ AppIdle /\ TopIdle /\ ChartIdle
          /\ CleanIdle /\ StoreIdle
NextDoc == ParseDoc
SpecDoc == InitD /\ [][NextDoc]_vars


\* ========================================================================
\* Properties
\* ========================================================================
Extracted == epc \in {"extracted", "rejoined"}

EmojiBases == (EmojiPresentation \cup ExtendedPictographic) \ SkinToneModifiers

\* C1: a text whose only emoji is a family sequence (four persons joined by
\* three ZWJ, optionally a trailing U+FE0F) extracts to exactly one unit, the
\* whole sequence of 7 (or 8) code points.
C1_FamilyIsOneUnit ==
    (Extracted /\ text \in FamilyTexts) =>
        /\ Len(emojis) = 1
        /\ emojis[1] \in FamilySequences
        /\ Len(emojis[1]) \in {7, 8}

\* C2: where a base emoji is immediately followed by a skin-tone modifier, the
\* pair is emitted as one unit; and when every modifier of the text follows a
\* base, no unit is a modifier alone.
C2_SkinToneBoundToBase ==
    Extracted =>
        /\ \A i \in 1..(Len(text) - 1) :
              (text[i] \in EmojiBases /\ text[i + 1] \in SkinToneModifiers) =>
                  \E k \in 1..Len(emojis) :
                      StartsWith(emojis[k], <<text[i], text[i + 1]>>)
        /\ (\A i \in 1..Len(text) :
              text[i] \in SkinToneModifiers => (i > 1 /\ text[i - 1] \in EmojiBases))
           => \A k \in 1..Len(emojis) : emojis[k] \notin {<<m>> : m \in SkinToneModifiers}

\* C3: extracting again from the joined units gives the same units, in the
\* same order and number.
C3_RejoinIdempotent == epc = "rejoined" => emojis2 = emojis

\* C3 witness: two units separated by a letter become adjacent in the join,
\* the second one a modifier that could attach to the first
C3_Witness ==
    /\ epc = "rejoined"
    /\ text = <<"smile", "a", "skin">>
    /\ rejoined = <<"smile", "skin">>
    /\ Len(emojis) = 2

\* the per-user maps of a statistics object
UserMaps(stats) ==
    {stats.emojiCountByUser[i].v : i \in 1..Len(stats.emojiCountByUser)}

RECURSIVE SumOverUsers(_, _)
SumOverUsers(byUser, e) ==
    IF byUser = <<>> THEN 0
    ELSE (IF ObjHas(Head(byUser).v, e) THEN ObjGet(Head(byUser).v, e) ELSE 0)
         + SumOverUsers(Tail(byUser), e)

IgnoreSetCorrect(stats, ignored) ==
    /\ \A e \in ignored :
          /\ ~ObjHas(stats.totalEmojiCount, e)
          /\ \A m \in UserMaps(stats) : ~ObjHas(m, e)
    /\ \A m \in UserMaps(stats) : ObjKeys(m) \subseteq ObjKeys(stats.totalEmojiCount)
    /\ \A e \in ObjKeys(stats.totalEmojiCount) :
          SumOverUsers(stats.emojiCountByUser, e) = ObjGet(stats.totalEmojiCount, e)

\* C4: every statistics recomputation (an ignore-input change while data is
\* shown) leaves no ignored emoji as a key of totalEmojiCount or of a per-user
\* map, and each remaining emoji's per-user counts sum to its total count.
C4_IgnoreSetCorrect ==
    [][(\E t \in IgnoreInputs : HandleIgnoreInputChange(t)) =>
          IgnoreSetCorrect(parsedData'[1].statistics, ignoredEmojis')]_vars

MessageEmojis(msgs) ==
    UNION {{msgs[i].emojis[j] : j \in 1..Len(msgs[i].emojis)} : i \in 1..Len(msgs)}

\* C4 witness: an emoji of the messages is ignored and gone from the total
\* count, while other emoji remain counted
C4_Witness ==
    /\ parsedData # None
    /\ ignoredEmojis \cap MessageEmojis(parsedData[1].messages) # {}
    /\ \A e \in ignoredEmojis : ~ObjHas(parsedData[1].statistics.totalEmojiCount, e)
    /\ parsedData[1].statistics.totalEmojiCount # <<>>

\* C5: whenever no parse is in flight and parsedData is set, its statistics
\* are the aggregation of its messages under the current ignoredEmojis.
C5_StatsFollowIgnoreSet ==
    (reads = <<>> /\ parsedData # None) =>
        parsedData[1].statistics =
            recalculatedStatistics(parsedData[1].messages, ignoredEmojis)

\* C6: the per-user message counts sum to meta.totalMessages, which is the
\* number of messages, after the parse and after every recomputation.
C6_MessageCountTotal ==
    parsedData # None =>
        /\ ObjSum(parsedData[1].statistics.messageCountByUser)
              = parsedData[1].meta.totalMessages
        /\ parsedData[1].meta.totalMessages = Len(parsedData[1].messages)

\* C6 witness: recomputed statistics over several messages, one without emoji
C6_Witness ==
    /\ parsedData # None
    /\ ignoredEmojis # {}
    /\ Len(parsedData[1].messages) >= 2
    /\ \E i \in 1..Len(parsedData[1].messages) : parsedData[1].messages[i].emojis = <<>>
    /\ parsedData[1].statistics =
          recalculatedStatistics(parsedData[1].messages, ignoredEmojis)

IgnoreSets == {IgnoredSetOf(t) : t \in IgnoreInputs}

\* meta, messages and statistics of d all come from the messages of file f
WholeResultOf(d, f) ==
    LET msgs == ParseNodes(Sanitize(f.doc).containers) IN
    /\ d.messages = msgs
    /\ d.meta = parseResult(f.doc).meta
    /\ \E I \in IgnoreSets : d.statistics = recalculatedStatistics(msgs, I)

\* C7: every non-null parsedData is a complete result whose meta, messages and
\* statistics were derived from the messages of one single file.
C7_NoTornResult ==
    parsedData # None => \E f \in Files : WholeResultOf(parsedData[1], f)

\* C7 witness: the result of an earlier file is shown and recomputed while
\* the read of the file selected after it is still in flight
C7_Witness ==
    /\ parsedData # None
    /\ reads # <<>>
    /\ ignoredEmojis # {}
    /\ selectedFile # None
    /\ ~WholeResultOf(parsedData[1], selectedFile[1])

TooLarge == "File is too large. Maximum size is 50MB"

\* C8: processFile accepts an HTML file of exactly maxSize bytes (it emits
\* file-selected: the file becomes selectedFile and its read starts), and for
\* an HTML file above maxSize it sets the 'too large' error and starts nothing.
C8_SizeCapInclusive ==
    [][\A f \in Files : (ProcessFile(f) /\ IsHtml(f)) =>
          /\ f.size = maxSize =>
                (error' = NULL /\ selectedFile' = Some(f) /\ reads' = Append(reads, f))
          /\ f.size > maxSize =>
                (error' = TooLarge /\ UNCHANGED <<selectedFile, reads, isParsing, parsedData>>)
      ]_vars

\* C8 witness: a file of exactly maxSize bytes was accepted, then a larger
\* one rejected
C8_Witness ==
    /\ selectedFile # None
    /\ selectedFile[1].size = maxSize
    /\ error = TooLarge

\* C9: the type of an emitted message is the first match of: attachment
\* phrase, audio-call phrase, 'Liked a message', img element, audio element,
\* empty content, else text.
C9_TypeByFirstMatch ==
    (npc = "parsed" /\ message # None) =>
        LET m     == message[1]
            att   == Includes(m.content, SentAnAttachment)
            call  == Includes(m.content, AudioCallEnded)
                     \/ Includes(m.content, StartedAnAudioCall)
            liked == Includes(m.content, LikedAMessage)
        IN /\ m.type \in {"text", "image", "audio", "attachment", "call",
                          "reaction", "empty"}
           /\ att => m.type = "attachment"
           /\ (~att /\ call) => m.type = "call"
           /\ (~att /\ ~call /\ liked) => m.type = "reaction"
           /\ (~att /\ ~call /\ ~liked /\ node.hasImg) => m.type = "image"
           /\ (~att /\ ~call /\ ~liked /\ ~node.hasImg /\ node.hasAudio)
                 => m.type = "audio"
           /\ (~att /\ ~call /\ ~liked /\ ~node.hasImg /\ ~node.hasAudio)
                 => m.type = (IF m.content = <<>> THEN "empty" ELSE "text")

\* C9 witness: an attachment phrase with an img present gives attachment
C9_Witness ==
    /\ npc = "parsed"
    /\ message # None
    /\ node.hasImg
    /\ Includes(message[1].content, SentAnAttachment)
    /\ message[1].type = "attachment"

\* C10: every emitted message has a non-empty sender, and a container
\* without a sender element gives no message.
C10_SenderNonEmpty ==
    npc = "parsed" =>
        /\ message # None => message[1].sender # <<>>
        /\ node.sender = None => message = None

\* C11: a timestamp element whose text cannot be parsed as a date gives a
\* message that is still emitted and whose timestamp is null, the value of a
\* message with no timestamp element, never a date-like value.
C11_UnparseableTimestampIsNull ==
    (npc = "parsed" /\ node.sender # None /\ node.timestamp = Some("not a date")) =>
        /\ message # None
        /\ message[1].timestamp = NullTimestamp

\* the candidate texts of a content element: the trimmed non-empty div texts
TextCandidates(divs) ==
    {i \in 1..Len(divs) : Trim(divs[i]) # <<>>}

\* C12: when the only text-bearing candidate of the content element begins
\* with a system prefix, that text is kept as the content of the message.
C12_SolePrefixedCandidateKept ==
    (npc = "parsed" /\ message # None /\ node.content # None) =>
        LET divs == node.content[1]
            cands == TextCandidates(divs) IN
        \A i \in cands :
            (cands = {i} /\ (\/ StartsWith(Trim(divs[i]), YouSentAnAttachment)
                             \/ StartsWith(Trim(divs[i]), LikedAMessage)))
                => message[1].content = Trim(divs[i])

\* the containers that give a message: a sender element and no exception
Emitting(ns) ==
    {i \in 1..Len(ns) : ns[i].sender # None /\ ~ns[i].throws}

\* the k-th smallest element of a set of indices
NthOf(S, k) == CHOOSE i \in S : Cardinality({j \in S : j <= i}) = k

\* C13: a failure while the fields of one container are extracted drops only
\* that message: parseChatHTML still returns a conversation, whose messages
\* are exactly those of the other containers, in document order.
C13_FailureDropsOneMessage ==
    dpc = "parsed" =>
        /\ conversation # None
        /\ LET msgs == conversation[1].messages
               kept == Emitting(containers) IN
           /\ Len(msgs) = Cardinality(kept)
           /\ \A k \in 1..Len(msgs) :
                 msgs[k] = parseMessageNode(containers[NthOf(kept, k)])[1]

\* a throwing container between two that give a message
C13_Witness ==
    /\ dpc = "parsed"
    /\ Len(containers) = 3
    /\ containers[2].sender # None /\ containers[2].throws
    /\ Emitting(containers) = {1, 3}
    /\ Len(conversation[1].messages) = 2

\* C14: when a parse fails fatally (parseChatHTML rejects), the state of App
\* after that call has parsedData null and isParsingError set to the
\* message of the error.
C14_FatalFailureLeavesNoData ==
    [][\A i \in 1..MaxReads :
          ReadRejected(i) =>
              /\ parsedData' = None
              /\ isParsingError' = "Failed to parse chat file: read failed"]_vars

RECURSIVE AllEmojis(_)
\* the emoji of a message list in the order they are encountered
AllEmojis(msgs) ==
    IF msgs = <<>> THEN <<>> ELSE Head(msgs).emojis \o AllEmojis(Tail(msgs))

FirstEncounter(units, e) ==
    CHOOSE i \in 1..Len(units) : units[i] = e /\ \A j \in 1..(i - 1) : units[j] # e

\* topEmojis of stats against the counted emoji sequence units
TopEmojisOrdered(stats, units) ==
    LET top   == stats.topEmojis
        total == stats.totalEmojiCount IN
    /\ Len(top) = Len(total)
    /\ {top[i].emoji : i \in 1..Len(top)} = ObjKeys(total)
    /\ ObjKeys(total) = {units[i] : i \in 1..Len(units)}
    /\ \A i \in 1..Len(top) : top[i].count = ObjGet(total, top[i].emoji)
    /\ \A i, j \in 1..Len(top) :
          i < j =>
              \/ top[i].count > top[j].count
              \/ /\ top[i].count = top[j].count
                 /\ FirstEncounter(units, top[i].emoji)
                        < FirstEncounter(units, top[j].emoji)

\* C15: topEmojis has exactly one entry per key of totalEmojiCount, in
\* descending order of count, and entries of equal count stand in the order
\* in which their emoji was first encountered in the message list; the array
\* is thereby determined by the input.
C15_TopEmojisStable ==
    /\ dpc = "parsed" =>
          TopEmojisOrdered(conversation[1].statistics,
                           AllEmojis(conversation[1].messages))
    /\ parsedData # None =>
          \E I \in IgnoreSets :
              TopEmojisOrdered(parsedData[1].statistics,
                               Filter(AllEmojis(parsedData[1].messages), I))

\* a strictly larger count first, then two emoji of equal count
C15_Witness ==
    /\ dpc = "parsed"
    /\ LET top == conversation[1].statistics.topEmojis IN
       /\ Len(top) = 3
       /\ top[1].count > top[2].count
       /\ top[2].count = top[3].count

\* C16: transformEmojiCount filters by the ignore set before it cuts to the
\* limit: the result has min(limit, number of non-ignored emoji) entries,
\* none of them ignored, they are the non-ignored emoji of highest count in
\* descending order of count, and labels and data have the same length.
C16_FilterBeforeCut ==
    tpc = "done" =>
        LET labels == emojiChart[1].labels
            data   == emojiChart[1].data
            kept   == ObjKeys(emojiCount) \ ignoredSet
            shown  == {labels[i] : i \in 1..Len(labels)} IN
        /\ Len(labels) = Min(limit, Cardinality(kept))
        /\ Len(data) = Len(labels)
        /\ shown \subseteq kept
        /\ Cardinality(shown) = Len(labels)
        /\ \A i \in 1..Len(labels) : data[i] = ObjGet(emojiCount, labels[i])
        /\ \A i, j \in 1..Len(data) : i < j => data[i] >= data[j]
        /\ \A e \in kept \ shown :
              \A i \in 1..Len(data) : data[i] >= ObjGet(emojiCount, e)

\* an ignored emoji counts more than the first one shown, and the cut drops
\* a non-ignored emoji
C16_Witness ==
    /\ tpc = "done"
    /\ Len(emojiChart[1].labels) >= 1
    /\ limit < Cardinality(ObjKeys(emojiCount) \ ignoredSet)
    /\ \E e \in ignoredSet :
          ObjHas(emojiCount, e) /\ ObjGet(emojiCount, e) > emojiChart[1].data[1]

\* the messages of a list that carry a valid date
Dated(msgs) ==
    {i \in 1..Len(msgs) : msgs[i].timestamp.isDate /\ ~msgs[i].timestamp.isNaN}

LabelIndex(labels, key) == CHOOSE i \in 1..Len(labels) : labels[i] = key

\* C17: under every grouping the timeline labels are in chronological order:
\* when message a is earlier than message b, the label of a's bucket does not
\* come after the label of b's bucket, also around the turn of a year under
\* week grouping.
C17_TimelineChronological ==
    cpc = "timeline" =>
        \A a, b \in Dated(messages) :
            messages[a].timestamp.time < messages[b].timestamp.time =>
                LabelIndex(chart[1].labels, TimelineKey(messages[a].timestamp, groupBy))
                  <= LabelIndex(chart[1].labels,
                                TimelineKey(messages[b].timestamp, groupBy))

\* C18: for a non-empty message list the day-of-week histogram has exactly 7
\* labels and 7 counts and the hour-of-day histogram 24 and 24, each count
\* being the number of messages whose timestamp falls in that bucket, zero
\* when there is none, even when no message has a timestamp.
C18_FullHistograms ==
    /\ (cpc = "dayOfWeek" /\ messages # <<>>) =>
          /\ Len(chart[1].labels) = 7
          /\ Len(chart[1].data) = 7
          /\ \A i \in 1..7 :
                chart[1].data[i] =
                    Cardinality({j \in Dated(messages) :
                        getDay(messages[j].timestamp.time \div 24) = i - 1})
    /\ (cpc = "hourOfDay" /\ messages # <<>>) =>
          /\ Len(chart[1].labels) = 24
          /\ Len(chart[1].data) = 24
          /\ \A i \in 1..24 :
                chart[1].data[i] =
                    Cardinality({j \in Dated(messages) :
                        messages[j].timestamp.time % 24 = i - 1})

\* messages, none with a timestamp: seven labels and seven zero counts
C18_Witness ==
    /\ cpc = "dayOfWeek"
    /\ messages # <<>>
    /\ \A j \in 1..Len(messages) : messages[j].timestamp = NullTimestamp
    /\ Len(chart[1].labels) = 7
    /\ chart[1].data = [i \in 1..7 |-> 0]

\* the messages with a timestamp whose bucket under grouping g is key
InBucket(msgs, g, key) ==
    {j \in 1..Len(msgs) :
        msgs[j].timestamp.isDate /\ UserTimeKey(msgs[j].timestamp, g) = key}

\* C19: transformActivityByUserOverTime returns exactly one dataset per
\* distinct sender, each data array as long as labels, the value at k being
\* that sender's number of messages in bucket labels[k]; so for each label
\* the values of all datasets sum to the number of timestamped messages in
\* that bucket.
C19_OneDatasetPerSender ==
    cpc = "userOverTime" =>
        LET labels   == chart[1].labels
            datasets == chart[1].datasets
            senders  == {messages[j].sender : j \in 1..Len(messages)} IN
        /\ {datasets[u].username : u \in 1..Len(datasets)} = senders
        /\ Len(datasets) = Cardinality(senders)
        /\ \A u \in 1..Len(datasets) :
              /\ Len(datasets[u].data) = Len(labels)
              /\ \A k \in 1..Len(labels) :
                    datasets[u].data[k] =
                        Cardinality({j \in InBucket(messages, groupBy, labels[k]) :
                                        messages[j].sender = datasets[u].username})
        /\ \A k \in 1..Len(labels) :
              Cardinality({<<u, n>> \in (1..Len(datasets)) \X (1..Len(messages)) :
                              n <= datasets[u].data[k]})
                  = Cardinality(InBucket(messages, groupBy, labels[k]))

\* C20: a pictographic symbol immediately followed by the variation selector
\* U+FE0F is emitted as one unit that includes the selector, never as the
\* bare symbol alone.
C20_VariationSelectorKept ==
    (Extracted /\ \A j \in 1..Len(text) : text[j] # "zwj") =>
        \A i \in 1..(Len(text) - 1) :
            (text[i] \in ExtendedPictographic /\ text[i + 1] = "vs16") =>
                /\ \E k \in 1..Len(emojis) : Includes(emojis[k], <<text[i], "vs16">>)
                /\ Len(text) = 2 => emojis = << <<text[i], "vs16">> >>

\* C21: a digit, '#' or '*' that is not the start of a full keycap sequence
\* (symbol, U+FE0F, U+20E3) is never emitted as or inside an emoji unit, and
\* no letter or other ordinary character is ever emitted.
C21_NoPlainCharacterEmitted ==
    Extracted =>
        \A k \in 1..Len(emojis) :
            \A j \in 1..Len(emojis[k]) :
                emojis[k][j] \in PlainChars =>
                    /\ emojis[k][j] \in {"one", "hash", "star"}
                    /\ At(emojis[k], j + 1) = "vs16"
                    /\ At(emojis[k], j + 2) = "keycap"

\* a digit and an emoji in one text: only the emoji is a unit
C21_Witness ==
    /\ Extracted
    /\ \E i, j \in 1..Len(text) : text[i] = "one" /\ text[j] = "smile"
    /\ \E i \in 1..Len(text) : text[i] \in {"hash", "star", "a"}
    /\ emojis = << <<"smile">> >>

\* units lie in content at the positions p, in order and without overlap
LiesAt(units, content, p) ==
    /\ \A k \in 1..Len(units) :
          /\ units[k] # <<>>
          /\ p[k] + Len(units[k]) - 1 <= Len(content)
          /\ SubSeq(content, p[k], p[k] + Len(units[k]) - 1) = units[k]
    /\ \A k \in 1..(Len(units) - 1) : p[k] + Len(units[k]) <= p[k + 1]

\* the positions of content that the units at p cover
Covered(units, p) ==
    UNION {p[k]..(p[k] + Len(units[k]) - 1) : k \in 1..Len(units)}

\* C22: the emojis of an emitted message are a sub-extraction of its
\* content: pairwise non-overlapping contiguous substrings of content, listed
\* from left to right with repeats kept, and made of emoji code points only,
\* so that removing them removes no other character of content.
C22_EmojisWithinContent ==
    (npc = "parsed" /\ message # None) =>
        LET content == message[1].content
            units   == message[1].emojis IN
        /\ \A k \in 1..Len(units) : \A j \in 1..Len(units[k]) :
              units[k][j] \in EmojiPresentation \cup ExtendedPictographic
        /\ \E p \in [1..Len(units) -> 1..(Len(content) + 1)] :
              /\ LiesAt(units, content, p)
              /\ \A i \in (1..Len(content)) \ Covered(units, p) :
                    content[i] \notin EmojiPresentation \cup ExtendedPictographic

\* a content with the same emoji twice: two equal units
C22_Witness ==
    /\ npc = "parsed"
    /\ message # None
    /\ Len(message[1].emojis) = 2
    /\ message[1].emojis[1] = message[1].emojis[2]

RECURSIVE ElementsOf(_)
\* all elements of a tree given by its top-level elements
ElementsOf(es) ==
    IF es = <<>> THEN {}
    ELSE {Head(es)} \cup ElementsOf(Head(es).children) \cup ElementsOf(Tail(es))

C24_ErrorIffLastFileRejected ==
    [][/\ \A f \in Files : ProcessFile(f) =>
            LET html == EndsWith(f.name, ".html") \/ EndsWith(f.name, ".htm")
                        \/ f.type = "text/html"
                rejected == ~html \/ f.size > maxSize \/ f.size = 0
            IN /\ (error' # NULL) <=> rejected
               /\ ~(error' # NULL /\ (reads' # reads \/ selectedFile' # selectedFile))
       /\ (\A f \in Files : ~ProcessFile(f)) => error' = error]_vars

\* a valid file was selected and its read is running, then a rejected file
\* was processed: the error is shown and the earlier selection stands
C24_Witness ==
    /\ error = "File is empty"
    /\ selectedFile # None /\ UploadError(selectedFile[1]) = NULL
    /\ reads # <<>>

\* C25: updateStatistics(newStats) replaces only statistics: with parsedData
\* set, the new parsedData has statistics = newStats and the meta and messages
\* it had, and rawFile, fileName and parseError keep their values; with
\* parsedData null the call changes nothing.
C25_UpdateStatisticsFrame ==
    [][\A s \in StoreStats : UpdateStatistics(s) =>
          /\ rawFile' = rawFile /\ fileName' = fileName /\ parseError' = parseError
          /\ IF storeData = None
             THEN storeData' = None
             ELSE /\ storeData' # None
                  /\ storeData'[1].statistics = s
                  /\ storeData'[1].meta = storeData[1].meta
                  /\ storeData'[1].messages = storeData[1].messages]_vars

\* the store holds a parse result with messages whose statistics were
\* replaced by those of no message at all, beside a file and an error
C25_Witness ==
    /\ storeData # None
    /\ storeData[1].messages # <<>>
    /\ storeData[1].statistics = EmptyStats
    /\ storeData[1].meta.totalMessages = Len(storeData[1].messages)
    /\ rawFile # None /\ fileName # <<>> /\ parseError # NULL

\* C26: the ignore-input segmenter of App.vue and extractEmojis agree: for
\* every text, the units handleIgnoreInputChange extracts from it are exactly
\* the units extractEmojis produces for it.
C26_SegmentersAgree ==
    Extracted => IgnoreMatchFrom(text, 1) = emojis

\* C27: the last selected file wins: once every started read has completed,
\* parsedData holds the result for the file in selectedFile (when that file
\* can be read), whatever the order in which the reads finished.
C27_LastSelectedFileWins ==
    (reads = <<>> /\ selectedFile # None /\ selectedFile[1].readable) =>
        /\ parsedData # None
        /\ WholeResultOf(parsedData[1], selectedFile[1])

\* C28: parsedData and isParsingError are never both non-null, and isParsing
\* is true exactly while at least one started parse has not completed.
C28_ParsingFlagsConsistent ==
    /\ ~(parsedData # None /\ isParsingError # NULL)
    /\ isParsing <=> reads # <<>>

\* C29: when the uploaded document has a header element containing an h1 of
\* trimmed text T, the parse result has meta.conversationTitle = T;
\* 'Unknown' appears only when the document has no such heading.
C29_TitleFromHeaderH1 ==
    [][\A i \in 1..MaxReads : ReadResolved(i) =>
          parsedData'[1].meta.conversationTitle =
              (IF reads[i].doc.inHeaderH1 = None THEN <<"Unknown">>
               ELSE Trim(reads[i].doc.inHeaderH1[1]))]_vars

RECURSIVE SumOf(_)
SumOf(q) == IF q = <<>> THEN 0 ELSE Head(q) + SumOf(Tail(q))

\* C30: messages without a valid timestamp neither create nor feed a
\* timeline bucket: the data of transformMessagesTimeline add up to the
\* number of messages with a valid date, and every label is a zero-padded
\* bucket key made of digits and the separators of its grouping.
C30_OnlyDatedMessagesCounted ==
    cpc = "timeline" =>
        /\ SumOf(chart[1].data) = Cardinality(Dated(messages))
        /\ \A i \in 1..Len(chart[1].labels) :
              \A j \in 1..Len(chart[1].labels[i]) :
                  chart[1].labels[i][j] \in {"0", "1", "2", "3", "4", "5", "6", "7",
                                             "8", "9", "-", " ", ":", "W"}

=============================================================================
